---- MODULE Spec2Model ----
(***************************************************************************)
(* A model of bottom's sampling/retention engine                           *)
(* (src/src/app/data_collection.rs, DataState::update_data) and of the     *)
(* table scroll window (src/src/canvas.rs, get_start_position), of the     *)
(* table column layout (src/src/canvas.rs, get_variable_intrinsic_widths)  *)
(* and of the counter-to-rate conversion of the readers.                   *)
(*                                                                         *)
(* Time is counted in clock units; TicksPerSec units make one second, so   *)
(* that Duration::as_secs (truncation to whole seconds) is not the         *)
(* identity.                                                               *)
(***************************************************************************)
EXTENDS Integers, Sequences, FiniteSets, TLC

VARIABLES
    now,             \* the monotonic clock (the last value Instant::now() returned)
    ticks,           \* number of update_data calls completed
    data,            \* DataState.data
    first_run,       \* DataState.first_run
    prev_pid_stats,  \* DataState.prev_pid_stats : pid -> (value, Instant)
    last_clean,      \* DataState.last_clean
    last,            \* what the last update_data call read and did, and the await
                     \* at which a call was dropped, if one was (history variable)
    num_rows,                      \* get_start_position: num_rows
    scroll_direction,              \* app_state.scroll_direction
    previously_scrolled_position,  \* app_state.previous_*_position
    currently_selected_position,   \* app_state.currently_selected_*_position
    start_position,                \* the value the last get_start_position call returned
    scroll,                        \* history of the calls made so far (history variable)
    layout,          \* the last get_variable_intrinsic_widths call: arguments and outcome
    rate             \* the last counter-to-rate conversion: arguments and result

engine_vars == <<now, ticks, data, first_run, prev_pid_stats, last_clean, last>>
scroll_vars == <<num_rows, scroll_direction, previously_scrolled_position,
                 currently_selected_position, start_position, scroll>>
vars == <<engine_vars, scroll_vars, layout, rate>>

(***************************************************************************)
(* Bounds of the model.                                                    *)
(***************************************************************************)
\* update_data calls explored
MaxTicks == 3
\* clock units per second (the clock is finer than one second)
TicksPerSec == 2
\* DataState.stale_max_seconds, scaled down
StaleMaxSeconds == 1
\* clock units that may pass between two update_data calls
Elapsed == {1, 2 * TicksPerSec}
\* clock units that may pass inside one call, between its two Instant::now()
FetchDelay == {0, 1}
\* process ids the process table may hold
Pids == {1, 2}
\* process tables a successful read may return
ProcessTables == {{1, 2}, {1}}

(***************************************************************************)
(* The metric categories of update_data.                                   *)
(***************************************************************************)
TimeSeries == {"network", "list_of_cpu_packages", "memory", "swap", "list_of_io"}
Snapshots  == {"list_of_processes", "list_of_disks", "list_of_temperature_sensor"}
Categories == TimeSeries \cup Snapshots
\* cpu::get_cpu_data_list has no failing path: it always returns Ok
Fallible   == Categories \ {"list_of_cpu_packages"}

\* The Result of one read: Ok(value) or Err
Ok(v) == [ok |-> TRUE, value |-> v]
Err   == [ok |-> FALSE, value |-> <<>>]

\* The outcomes of the reads of one call, as the set of categories whose read
\* fails: none, every one, or exactly one of the fallible categories.
Outcomes ==
    {{}, Fallible} \cup {{c} : c \in Fallible}

\* Duration::as_secs: the whole seconds of a duration given in clock units
as_secs(d) == d \div TicksPerSec

\* Data::default()
DataDefault ==
    [ network                    |-> <<>>,
      list_of_cpu_packages       |-> <<>>,
      memory                     |-> <<>>,
      swap                       |-> <<>>,
      list_of_io                 |-> <<>>,
      list_of_physical_io        |-> <<>>,
      list_of_processes          |-> <<>>,
      grouped_list_of_processes  |-> <<>>,
      list_of_disks              |-> <<>>,
      list_of_temperature_sensor |-> <<>> ]

\* set_if_valid with the stored value cleared when the read fails
set_if_valid_clearing(result, value_to_set) ==
    IF result.ok THEN result.value ELSE <<>>

\* set_if_valid adding the rows read to the rows stored
set_if_valid_extending(result, value_to_set) ==
    IF result.ok THEN value_to_set \o result.value ELSE value_to_set

set_if_valid(result, value_to_set) ==
    IF result.ok THEN result.value ELSE value_to_set

\* push_if_valid storing the value read in place of the vector
push_if_valid_replacing(result, vector_to_push) ==
    IF result.ok THEN <<result.value>> ELSE vector_to_push

push_if_valid(result, vector_to_push) ==
    IF result.ok THEN Append(vector_to_push, result.value) ELSE vector_to_push


(***************************************************************************)
(* The reads of one update_data call.  `failed` is the set of categories   *)
(* whose read returns Err, `id` numbers the call (its payload), and        *)
(* current_instant is the Instant taken at the start of the call.          *)
(***************************************************************************)
\* A timestamped sample: the payload and the Instant it carries
Sample(id, instant) == [val |-> id, instant |-> instant]

\* network::get_network_data(.., &current_instant).await
get_network_data(failed, id, current_instant) ==
    IF "network" \in failed THEN Err ELSE Ok(Sample(id, current_instant))

\* cpu::get_cpu_data_list(&self.sys, &current_instant): always Ok
get_cpu_data_list(id, curr_time) == Ok(Sample(id, curr_time))

\* mem::get_mem_data_list(&current_instant).await
get_mem_data_list(failed, id, current_instant) ==
    IF "memory" \in failed THEN Err ELSE Ok(Sample(id, current_instant))

\* mem::get_swap_data_list(&current_instant).await
get_swap_data_list(failed, id, current_instant) ==
    IF "swap" \in failed THEN Err ELSE Ok(Sample(id, current_instant))

\* disks::get_io_usage_list(false).await: the package carries the sample's Instant
get_io_usage_list(failed, id, current_instant) ==
    IF "list_of_io" \in failed THEN Err ELSE Ok(Sample(id, current_instant))

\* disks::get_disk_usage_list().await: the whole list of disks
get_disk_usage_list(failed, id) ==
    IF "list_of_disks" \in failed
    THEN Err
    ELSE Ok(<<[name |-> "sda", used_space |-> id], [name |-> "sdb", used_space |-> id]>>)

\* temperature::get_temperature_data(..).await: the whole list of sensors
get_temperature_data(failed, id) ==
    IF "list_of_temperature_sensor" \in failed
    THEN Err
    ELSE Ok(<<[component_name |-> "core", temperature |-> id]>>)

\* processes::get_sorted_processes_list: the rows of the process table `table`,
\* sorted by pid
ProcessRows(table, id) ==
    LET Row(p) == [pid |-> p, cpu_usage |-> id]
    IN  IF table = {1, 2} THEN <<Row(1), Row(2)>>
        ELSE IF table = {1} THEN <<Row(1)>>
        ELSE IF table = {2} THEN <<Row(2)>>
        ELSE <<>>

get_sorted_processes_list(failed, table, id) ==
    IF "list_of_processes" \in failed THEN Err ELSE Ok(ProcessRows(table, id))

\* processes::get_sorted_processes_list's side effect on prev_pid_stats: every
\* process it read is (re)entered with the current observation and Instant
refresh_pid_stats(stats, failed, table, id, current_instant) ==
    IF "list_of_processes" \in failed
    THEN stats
    ELSE [p \in (DOMAIN stats) \cup table |->
            IF p \in table THEN Sample(id, current_instant) ELSE stats[p]]

\* Lines 101-148 of update_data: every category merged into the dataset
Merge(d, failed, table, id, current_instant) ==
    [d EXCEPT
        !.network = push_if_valid(get_network_data(failed, id, current_instant), @),
        !.list_of_cpu_packages = push_if_valid(get_cpu_data_list(id, current_instant), @),
        !.memory = push_if_valid(get_mem_data_list(failed, id, current_instant), @),
        !.swap = push_if_valid(get_swap_data_list(failed, id, current_instant), @),
        !.list_of_processes = set_if_valid(get_sorted_processes_list(failed, table, id), @),
        !.list_of_disks = set_if_valid(get_disk_usage_list(failed, id), @),
        !.list_of_io = push_if_valid(get_io_usage_list(failed, id, current_instant), @),
        !.list_of_temperature_sensor = set_if_valid(get_temperature_data(failed, id), @)]

\* update_data without the reset of the first run
ResetNever(fr, d) == d

\* update_data resetting the dataset in every call
ResetAlways(fr, d) == DataDefault

\* update_data resetting the dataset in every call but the first
ResetAfterFirstRun(fr, d) == IF fr THEN d ELSE DataDefault

\* Lines 150-153: `if self.first_run { self.data = Data::default(); .. }`
ResetOnFirstRun(fr, d) == IF fr THEN DataDefault ELSE d

\* the filtering entered in every call
ShouldCleanAlways(clean_instant, lc) == TRUE

\* the filtering entered as soon as stale_max_seconds whole seconds have passed
ShouldCleanEarly(clean_instant, lc) ==
    as_secs(clean_instant - lc) >= StaleMaxSeconds

\* Line 157: the condition under which the stale entries are filtered out
ShouldClean(clean_instant, lc) ==
    as_secs(clean_instant - lc) > StaleMaxSeconds

\* the stale list taking the entries as old as the window too
StalePidsEarly(stats, clean_instant) ==
    {p \in DOMAIN stats : as_secs(clean_instant - stats[p].instant) >= StaleMaxSeconds}

\* the stale list computed with the two Instants of duration_since swapped
StalePidsSwapped(stats, clean_instant) ==
    {p \in DOMAIN stats : as_secs(stats[p].instant - clean_instant) > StaleMaxSeconds}

\* Lines 158-168: the pids whose entry is stale, which are removed
StalePids(stats, clean_instant) ==
    {p \in DOMAIN stats : as_secs(clean_instant - stats[p].instant) > StaleMaxSeconds}

RemoveStalePids(stats, clean_instant) ==
    [p \in (DOMAIN stats) \ StalePids(stats, clean_instant) |-> stats[p]]

\* the filter keeping the entries one second longer
NotStaleLate(entry, clean_instant) ==
    as_secs(clean_instant - entry.instant) <= StaleMaxSeconds + 1

\* Lines 175-177, 185-187, ...: the filter every timed vector goes through
NotStale(entry, clean_instant) ==
    as_secs(clean_instant - entry.instant) <= StaleMaxSeconds

Retain(vec, clean_instant) ==
    SelectSeq(vec, LAMBDA entry : NotStale(entry, clean_instant))

\* Lines 170-218: the five timed vectors filtered
CleanData(d, clean_instant) ==
    [d EXCEPT
        !.list_of_cpu_packages = Retain(@, clean_instant),
        !.memory = Retain(@, clean_instant),
        !.swap = Retain(@, clean_instant),
        !.network = Retain(@, clean_instant),
        !.list_of_io = Retain(@, clean_instant)]

\* Number of entries of the timed vectors of d
Entries(d) ==
    Len(d.network) + Len(d.list_of_cpu_packages) + Len(d.memory)
        + Len(d.swap) + Len(d.list_of_io)

(***************************************************************************)
(* DataState::update_data, one whole call.  `elapsed` clock units passed   *)
(* since the clock was last read and `delay` pass between the call's two   *)
(* Instant::now().                                                         *)
(***************************************************************************)
\* update_data resetting the whole DataState, not only the dataset, in the
\* first call
update_data_resetting_state(elapsed, delay, failed, table) ==
    LET id == ticks + 1
        current_instant == now + elapsed
        clean_instant == current_instant + delay
        merged == Merge(data, failed, table, id, current_instant)
        stats == IF first_run
                 THEN << >>
                 ELSE refresh_pid_stats(prev_pid_stats, failed, table, id, current_instant)
        kept == ResetOnFirstRun(first_run, merged)
        clean == ShouldClean(clean_instant, last_clean)
    IN  /\ ticks < MaxTicks
        /\ ("list_of_processes" \in failed => table = Pids)
        /\ ticks' = id
        /\ now' = clean_instant
        /\ first_run' = FALSE
        /\ data' = IF clean THEN CleanData(kept, clean_instant) ELSE kept
        /\ prev_pid_stats' = IF clean THEN RemoveStalePids(stats, clean_instant) ELSE stats
        /\ last_clean' = IF first_run \/ clean THEN clean_instant ELSE last_clean
        /\ last' = [ failed |-> failed, table |-> table,
                     full_before |-> last.full_before \/ (ticks >= 1 /\ last.failed = {}),
                     current_instant |-> current_instant,
                     clean_instant |-> clean_instant,
                     reset |-> first_run, swept |-> clean,
                     evicted |-> IF clean
                                 THEN Entries(kept) - Entries(CleanData(kept, clean_instant))
                                 ELSE 0,
                     evicted_pids |-> IF clean THEN StalePids(stats, clean_instant) ELSE {},
                     abandoned |-> last.abandoned ]
        /\ UNCHANGED <<scroll_vars, layout, rate>>

update_data(elapsed, delay, failed, table) ==
    LET id == ticks + 1
        current_instant == now + elapsed
        clean_instant == current_instant + delay
        merged == Merge(data, failed, table, id, current_instant)
        stats == refresh_pid_stats(prev_pid_stats, failed, table, id, current_instant)
        kept == ResetOnFirstRun(first_run, merged)
        clean == ShouldClean(clean_instant, last_clean)
    IN  /\ ticks < MaxTicks
        \* a process table that could not be read plays no part: take one
        /\ ("list_of_processes" \in failed => table = Pids)
        /\ ticks' = id
        /\ now' = clean_instant
        /\ first_run' = FALSE
        /\ data' = IF clean THEN CleanData(kept, clean_instant) ELSE kept
        /\ prev_pid_stats' = IF clean THEN RemoveStalePids(stats, clean_instant) ELSE stats
        /\ last_clean' = IF clean THEN clean_instant ELSE last_clean
        /\ last' = [ failed |-> failed, table |-> table,
                     full_before |-> last.full_before \/ (ticks >= 1 /\ last.failed = {}),
                     current_instant |-> current_instant,
                     clean_instant |-> clean_instant,
                     reset |-> first_run, swept |-> clean,
                     evicted |-> IF clean
                                 THEN Entries(kept) - Entries(CleanData(kept, clean_instant))
                                 ELSE 0,
                     evicted_pids |-> IF clean THEN StalePids(stats, clean_instant) ELSE {},
                     abandoned |-> last.abandoned ]
        /\ UNCHANGED <<scroll_vars, layout, rate>>

UpdateData ==
    \E elapsed \in Elapsed, delay \in FetchDelay, failed \in Outcomes,
       table \in ProcessTables :
        update_data(elapsed, delay, failed, table)

\* DataState::default(), before any call
EngineInit ==
    /\ now = 0
    /\ ticks = 0
    /\ data = DataDefault
    /\ first_run = TRUE
    /\ prev_pid_stats = << >>
    /\ last_clean = 0
    /\ last = [ failed |-> {}, table |-> {}, full_before |-> FALSE,
                current_instant |-> 0,
                clean_instant |-> 0, reset |-> FALSE, swept |-> FALSE,
                evicted |-> 0, evicted_pids |-> {}, abandoned |-> 0 ]

ScrollIdle ==
    /\ num_rows = 0
    /\ scroll_direction = "DOWN"
    /\ previously_scrolled_position = 0
    /\ currently_selected_position = 0
    /\ start_position = 0
    /\ scroll = [ called |-> FALSE, down_run |-> TRUE, rows_positive |-> TRUE,
                  rows_fixed |-> TRUE, unit_moves |-> TRUE,
                  before_start |-> 0, before_prev |-> 0 ]

\* No table has been laid out yet
LayoutIdle == layout = [called |-> FALSE]

\* No rate has been computed yet
RateIdle == rate = [called |-> FALSE]

Init == EngineInit /\ ScrollIdle /\ LayoutIdle /\ RateIdle

Next == UpdateData

Spec == Init /\ [][Next]_vars

(***************************************************************************)
(* A call of update_data that is dropped at one of its awaits.  The        *)
(* awaits are, in order: 1 network (line 109), 2 memory (118), 3 swap      *)
(* (122), 4 disks (138), 5 io (142), 6 temperature (146).  What the call   *)
(* did before that await stays done; nothing after it happens.             *)
(***************************************************************************)
Awaits == 1..6

\* The categories already merged when the call waits at await number `point`
MergedBefore(point) ==
    (IF point >= 2 THEN {"network", "list_of_cpu_packages"} ELSE {})
        \cup (IF point >= 3 THEN {"memory"} ELSE {})
        \cup (IF point >= 4 THEN {"swap", "list_of_processes"} ELSE {})
        \cup (IF point >= 5 THEN {"list_of_disks"} ELSE {})
        \cup (IF point >= 6 THEN {"list_of_io"} ELSE {})

\* Lines 101-148 carried out for the categories of `done` only
PartialMerge(d, done, failed, table, id, current_instant) ==
    LET merged == Merge(d, failed, table, id, current_instant)
    IN  [d EXCEPT
            !.network = IF "network" \in done THEN merged.network ELSE @,
            !.list_of_cpu_packages =
                IF "list_of_cpu_packages" \in done THEN merged.list_of_cpu_packages ELSE @,
            !.memory = IF "memory" \in done THEN merged.memory ELSE @,
            !.swap = IF "swap" \in done THEN merged.swap ELSE @,
            !.list_of_processes =
                IF "list_of_processes" \in done THEN merged.list_of_processes ELSE @,
            !.list_of_disks = IF "list_of_disks" \in done THEN merged.list_of_disks ELSE @,
            !.list_of_io = IF "list_of_io" \in done THEN merged.list_of_io ELSE @]

\* A dropped call that had cleared first_run before its first await
abandoned_update_clearing_flag(elapsed, point, failed, table) ==
    LET id == ticks + 1
        current_instant == now + elapsed
        done == MergedBefore(point)
    IN  /\ ticks < MaxTicks
        /\ last.abandoned = 0
        /\ ("list_of_processes" \in failed => table = Pids)
        /\ now' = current_instant
        /\ data' = PartialMerge(data, done, failed, table, id, current_instant)
        /\ prev_pid_stats' =
              IF "list_of_processes" \in done
              THEN refresh_pid_stats(prev_pid_stats, failed, table, id, current_instant)
              ELSE prev_pid_stats
        /\ first_run' = FALSE
        /\ last' = [last EXCEPT !.abandoned = point]
        /\ UNCHANGED <<ticks, last_clean, scroll_vars, layout, rate>>

\* update_data dropped at await number `point`: lines 150-221 are not reached
abandoned_update(elapsed, point, failed, table) ==
    LET id == ticks + 1
        current_instant == now + elapsed
        done == MergedBefore(point)
    IN  /\ ticks < MaxTicks
        /\ last.abandoned = 0
        /\ ("list_of_processes" \in failed => table = Pids)
        /\ now' = current_instant
        /\ data' = PartialMerge(data, done, failed, table, id, current_instant)
        /\ prev_pid_stats' =
              IF "list_of_processes" \in done
              THEN refresh_pid_stats(prev_pid_stats, failed, table, id, current_instant)
              ELSE prev_pid_stats
        /\ last' = [last EXCEPT !.abandoned = point]
        /\ UNCHANGED <<ticks, first_run, last_clean, scroll_vars, layout, rate>>

\* The outcomes explored around a dropped call: every read succeeds, or
\* every fallible read fails
CancelOutcomes == {{}, Fallible}

AbandonedUpdate ==
    \E elapsed \in Elapsed, point \in Awaits, failed \in CancelOutcomes,
       table \in ProcessTables :
        abandoned_update(elapsed, point, failed, table)

\* The calls that run to their end, before and after the dropped one
CompletedUpdate ==
    \E elapsed \in Elapsed, delay \in FetchDelay, failed \in CancelOutcomes,
       table \in ProcessTables :
        update_data(elapsed, delay, failed, table)

SpecCancel == Init /\ [][CompletedUpdate \/ AbandonedUpdate]_vars

(***************************************************************************)
(* update_data called for ever.  The code never looks at an Instant but   *)
(* through duration_since, so after each call the Instants it keeps are   *)
(* written relative to the call's last clock reading, and the ones older  *)
(* than MaxAge, which every comparison of the code finds stale, are       *)
(* written as MaxAge old.  `tracked` marks the observations of one call,  *)
(* so that they can be followed until they are gone.                      *)
(***************************************************************************)
\* clock units between two calls: more than one second, at most two
LiveElapsed == {TicksPerSec + 1, 2 * TicksPerSec}

\* an age beyond which every entry is stale
MaxAge == (StaleMaxSeconds + 2) * TicksPerSec

\* The Instant `instant` seen from the clock reading `origin`
Rebase(instant, origin) ==
    IF instant - origin < 0 - MaxAge THEN 0 - MaxAge ELSE instant - origin

RebaseVec(vec, origin) ==
    [i \in 1..Len(vec) |-> [vec[i] EXCEPT !.instant = Rebase(@, origin)]]

RebaseData(d, origin) ==
    [d EXCEPT
        !.list_of_cpu_packages = RebaseVec(@, origin),
        !.memory = RebaseVec(@, origin),
        !.swap = RebaseVec(@, origin),
        !.network = RebaseVec(@, origin),
        !.list_of_io = RebaseVec(@, origin)]

RebaseStats(stats, origin) ==
    [p \in DOMAIN stats |-> [stats[p] EXCEPT !.instant = Rebase(@, origin)]]

\* Some observation kept in a timed vector or in prev_pid_stats is a tracked one
TrackedIn(d, stats) ==
    \/ \E c \in TimeSeries : \E i \in 1..Len(d[c]) : d[c][i].val = 1
    \/ \E p \in DOMAIN stats : stats[p].val = 1

\* DataState::update_data, one whole call, with the Instants rebased
update_data_live(elapsed, delay, failed, table, tracked) ==
    LET id == IF tracked THEN 1 ELSE 0
        current_instant == now + elapsed
        clean_instant == current_instant + delay
        merged == Merge(data, failed, table, id, current_instant)
        stats == refresh_pid_stats(prev_pid_stats, failed, table, id, current_instant)
        kept == ResetOnFirstRun(first_run, merged)
        clean == ShouldClean(clean_instant, last_clean)
        data_after == IF clean THEN CleanData(kept, clean_instant) ELSE kept
        stats_after == IF clean THEN RemoveStalePids(stats, clean_instant) ELSE stats
    IN  /\ tracked => ~TrackedIn(data, prev_pid_stats)
        /\ ("list_of_processes" \in failed => table = Pids)
        /\ ticks' = IF ticks < MaxTicks THEN ticks + 1 ELSE ticks
        /\ now' = 0
        /\ first_run' = FALSE
        /\ data' = RebaseData(data_after, clean_instant)
        /\ prev_pid_stats' = RebaseStats(stats_after, clean_instant)
        /\ last_clean' = IF clean THEN 0 ELSE Rebase(last_clean, clean_instant)
        /\ last' = [ reset |-> first_run, swept |-> clean,
                     evicted_pids |-> IF clean THEN StalePids(stats, clean_instant) ELSE {},
                     tracked_gone |-> /\ TrackedIn(data, prev_pid_stats)
                                      /\ ~TrackedIn(data_after, stats_after) ]
        /\ UNCHANGED <<scroll_vars, layout, rate>>

UpdateDataLive ==
    \E elapsed \in LiveElapsed, delay \in FetchDelay, failed \in CancelOutcomes,
       table \in ProcessTables, tracked \in BOOLEAN :
        update_data_live(elapsed, delay, failed, table, tracked)

\* The main loop calls update_data again and again
SpecLive == Init /\ [][UpdateDataLive]_vars /\ WF_vars(UpdateDataLive)

(***************************************************************************)
(* The scroll window of a table: get_start_position (canvas.rs).           *)
(***************************************************************************)
\* rows a table may be given (draw_loc.height - 5, negative for a low panel)
MaxRows == 5
Rows == -1 .. MaxRows
\* largest index that may be selected
MaxSelected == 7

\* get_start_position advancing one row short under DOWN
get_start_position_short(rows, direction, prev, selected) ==
    IF direction = "DOWN"
    THEN IF selected < prev + rows
         THEN [ret |-> prev, prev |-> prev]
         ELSE IF selected >= rows
              THEN [ret |-> selected - rows - 1, prev |-> selected - rows - 1]
              ELSE [ret |-> 0, prev |-> prev]
    ELSE IF selected <= prev
         THEN [ret |-> selected, prev |-> selected]
         ELSE [ret |-> prev, prev |-> prev]

\* get_start_position advancing by the distance from the stored offset
get_start_position_relative(rows, direction, prev, selected) ==
    IF direction = "DOWN"
    THEN IF selected < prev + rows
         THEN [ret |-> prev, prev |-> prev]
         ELSE IF selected >= rows
              THEN [ret |-> selected - prev - rows, prev |-> selected - prev - rows]
              ELSE [ret |-> 0, prev |-> prev]
    ELSE IF selected <= prev
         THEN [ret |-> selected, prev |-> selected]
         ELSE [ret |-> prev, prev |-> prev]

\* get_start_position returning the new offset under DOWN without storing it
get_start_position_unstored(rows, direction, prev, selected) ==
    IF direction = "DOWN"
    THEN IF selected < prev + rows
         THEN [ret |-> prev, prev |-> prev]
         ELSE IF selected >= rows
              THEN [ret |-> selected - rows, prev |-> prev]
              ELSE [ret |-> 0, prev |-> prev]
    ELSE IF selected <= prev
         THEN [ret |-> selected, prev |-> selected]
         ELSE [ret |-> prev, prev |-> prev]

\* get_start_position never retreating under UP
get_start_position_stuck(rows, direction, prev, selected) ==
    IF direction = "DOWN"
    THEN IF selected < prev + rows
         THEN [ret |-> prev, prev |-> prev]
         ELSE IF selected >= rows
              THEN [ret |-> selected - rows, prev |-> selected - rows]
              ELSE [ret |-> 0, prev |-> prev]
    ELSE [ret |-> prev, prev |-> prev]

\* get_start_position: the value returned (ret) and the value left in
\* *previously_scrolled_position (prev)
get_start_position(rows, direction, prev, selected) ==
    IF direction = "DOWN"
    THEN IF selected < prev + rows
         THEN [ret |-> prev, prev |-> prev]
         ELSE IF selected >= rows
              THEN [ret |-> selected - rows, prev |-> selected - rows]
              ELSE [ret |-> 0, prev |-> prev]
    ELSE IF selected <= prev
         THEN [ret |-> selected, prev |-> selected]
         ELSE [ret |-> prev, prev |-> prev]

\* One draw of a table (draw_cpu_legend, draw_temp_table, draw_disk_table,
\* draw_processes_table): the selection and the direction are what the user's
\* moves left them, and the table asks for its start position.
DrawTable(rows, direction, selected) ==
    LET r == get_start_position(rows, direction, previously_scrolled_position, selected)
    IN  /\ num_rows' = rows
        /\ scroll_direction' = direction
        /\ currently_selected_position' = selected
        /\ previously_scrolled_position' = r.prev
        /\ start_position' = r.ret
        /\ scroll' = [ called |-> TRUE,
                       down_run |-> /\ scroll.down_run
                                    /\ direction = "DOWN"
                                    /\ selected >= currently_selected_position,
                       rows_positive |-> scroll.rows_positive /\ rows > 0,
                       rows_fixed |-> /\ scroll.rows_fixed
                                      /\ (scroll.called => rows = num_rows),
                       unit_moves |-> /\ scroll.unit_moves
                                      /\ \/ selected = currently_selected_position
                                         \/ /\ direction = "DOWN"
                                            /\ selected = currently_selected_position + 1
                                         \/ /\ direction = "UP"
                                            /\ selected = currently_selected_position - 1,
                       before_start |-> start_position,
                       before_prev |-> previously_scrolled_position ]
        /\ UNCHANGED <<engine_vars, layout, rate>>

Draw ==
    \E rows \in Rows, direction \in {"DOWN", "UP"}, selected \in 0..MaxSelected :
        DrawTable(rows, direction, selected)

SpecScroll == Init /\ [][Draw]_vars

(***************************************************************************)
(* The column widths of a table: get_variable_intrinsic_widths             *)
(* (canvas.rs).  A call either returns or panics; integer overflow panics  *)
(* in a debug build and wraps in a release build, division by zero panics  *)
(* in both.                                                                *)
(***************************************************************************)
\* widest terminal explored
MaxWidth == 20
\* most columns explored
MaxCols == 3
\* desired_widths_ratio entries, counted in quarters: 0.25 and 0.5
RatioQuarters == {1, 2}
\* width_thresholds entries: FORCE_MIN_THRESHOLD and the lengths of the
\* headers "Sensor" and "Total RX"
Thresholds == {5, 6, 8}
\* the two overflow behaviours of rustc
Builds == {"debug", "release"}

\* number of values of a u16
U16 == 2 ^ 16

\* x as u16
as_u16(x) == x % U16

\* a u16 operation whose mathematical result is x panics
Overflows(build, x) == build = "debug" /\ (x < 0 \/ x >= U16)

\* (desired_width_ratio * total_width as f64) as i32, the ratio given in quarters
desired_width(quarters, total_width) == (quarters * total_width) \div 4

\* The body of the loop for one column: the width it gets and what remains
AllocateColumn(desired, threshold, remaining_width) ==
    IF desired < threshold
    THEN IF remaining_width < threshold
         THEN [width |-> 0, remaining_width |-> remaining_width]
         ELSE [width |-> as_u16(threshold), remaining_width |-> remaining_width - threshold]
    ELSE IF remaining_width < desired
         THEN IF remaining_width < threshold
              THEN [width |-> 0, remaining_width |-> remaining_width]
              ELSE [width |-> as_u16(remaining_width), remaining_width |-> 0]
         ELSE [width |-> as_u16(desired), remaining_width |-> remaining_width - desired]

RECURSIVE AllocationPass(_, _, _, _, _, _)
\* The main pass going on to the next column after a column that got 0
AllocationPass_through(itx, resulting_widths, remaining_width, last_index, desired_widths, width_thresholds) ==
    IF itx > Len(resulting_widths)
    THEN [resulting_widths |-> resulting_widths, remaining_width |-> remaining_width,
          last_index |-> last_index]
    ELSE LET col == AllocateColumn(desired_widths[itx], width_thresholds[itx],
                                   remaining_width)
         IN  AllocationPass(itx + 1, [resulting_widths EXCEPT ![itx] = col.width],
                            col.remaining_width,
                            IF col.width = 0 THEN last_index ELSE last_index + 1,
                            desired_widths, width_thresholds)

\* The main pass from column itx on: it stops at the first column that gets 0
AllocationPass(itx, resulting_widths, remaining_width, last_index, desired_widths, width_thresholds) ==
    IF itx > Len(resulting_widths)
    THEN [resulting_widths |-> resulting_widths, remaining_width |-> remaining_width,
          last_index |-> last_index]
    ELSE LET col == AllocateColumn(desired_widths[itx], width_thresholds[itx],
                                   remaining_width)
         IN  IF col.width = 0
             THEN [resulting_widths |-> [resulting_widths EXCEPT ![itx] = 0],
                   remaining_width |-> col.remaining_width,
                   last_index |-> last_index]
             ELSE AllocationPass(itx + 1, [resulting_widths EXCEPT ![itx] = col.width],
                                 col.remaining_width, last_index + 1,
                                 desired_widths, width_thresholds)

\* The redistribution loop: every entry of the vector gains for_all_widths,
\* and the first `remainder` entries one more
Redistribute(resulting_widths, remaining_width, last_index) ==
    LET for_all_widths == as_u16(remaining_width \div last_index)
        remainder == remaining_width % last_index
    IN  [i \in 1..Len(resulting_widths) |->
            resulting_widths[i] + for_all_widths + (IF i <= remainder THEN 1 ELSE 0)]

\* A call that panicked before the main pass
PanicBeforePass == [passed |-> FALSE, returned |-> FALSE]

\* get_variable_intrinsic_widths, one whole call.  `allocated` and
\* `remaining_width` record the vector and the space left after the main pass.
get_variable_intrinsic_widths(build, total_width, desired_widths_ratio, width_thresholds) ==
    LET num_widths == Len(desired_widths_ratio)
        gaps == as_u16(num_widths) - 1
        space == total_width - as_u16(gaps)
        desired_widths == [i \in 1..num_widths |->
                              desired_width(desired_widths_ratio[i], total_width)]
        pass == AllocationPass(1, [i \in 1..num_widths |-> 0], as_u16(space), 0,
                               desired_widths, width_thresholds)
        after == [passed |-> TRUE, allocated |-> pass.resulting_widths,
                  remaining_width |-> pass.remaining_width, last_index |-> pass.last_index]
        spread == Redistribute(pass.resulting_widths, pass.remaining_width, pass.last_index)
    IN  IF Overflows(build, gaps) \/ Overflows(build, space)
        THEN PanicBeforePass
        ELSE IF pass.last_index < num_widths
             THEN IF pass.last_index = 0
                       \/ \E i \in 1..num_widths : Overflows(build, spread[i])
                  THEN [returned |-> FALSE] @@ after
                  ELSE [returned |-> TRUE,
                        resulting_widths |-> [i \in 1..num_widths |-> as_u16(spread[i])]]
                       @@ after
             ELSE [returned |-> TRUE, resulting_widths |-> pass.resulting_widths] @@ after

\* The arguments a table is about to be drawn with
LayoutArguments ==
    \E build \in Builds, total_width \in 0..MaxWidth, n \in 1..MaxCols :
        \E desired_widths_ratio \in [1..n -> RatioQuarters],
           width_thresholds \in [1..n -> Thresholds] :
            layout = [called |-> FALSE, build |-> build, total_width |-> total_width,
                      desired_widths_ratio |-> desired_widths_ratio,
                      width_thresholds |-> width_thresholds]

\* A table is drawn: its column widths are computed from the arguments
DrawTableWidths ==
    /\ layout' = [called |-> TRUE, build |-> layout.build,
                  total_width |-> layout.total_width,
                  desired_widths_ratio |-> layout.desired_widths_ratio,
                  width_thresholds |-> layout.width_thresholds,
                  result |-> get_variable_intrinsic_widths(layout.build,
                                 layout.total_width, layout.desired_widths_ratio,
                                 layout.width_thresholds)]
    /\ UNCHANGED <<engine_vars, scroll_vars, rate>>

InitLayout == EngineInit /\ ScrollIdle /\ RateIdle /\ LayoutArguments

SpecLayout == InitLayout /\ [][DrawTableWidths]_vars

(***************************************************************************)
(* The conversion of a cumulative counter to a rate (RateCounter), as the  *)
(* readers apply it to the network byte counters and the CPU ticks.  The   *)
(* counter is unsigned; prev_value and prev_time are the previous          *)
(* observation, overwritten by every call.                                 *)
(***************************************************************************)
\* largest counter value explored
MaxCounter == 3
\* latest clock reading explored
MaxClock == 3

\* number of values of the counter's unsigned type
CounterModulus == MaxCounter + 1

\* RateCounter subtracting in the unsigned type without looking for a reset
RateCounter_wrapping(prev_value, prev_time, curr_value, curr_time) ==
    IF curr_time - prev_time <= 0
    THEN 0
    ELSE ((curr_value - prev_value) % CounterModulus) \div (curr_time - prev_time)

\* The rate between two observations of a counter
RateCounter(prev_value, prev_time, curr_value, curr_time) ==
    IF curr_time - prev_time <= 0
    THEN 0
    ELSE IF curr_value < prev_value
         THEN 0
         ELSE (curr_value - prev_value) \div (curr_time - prev_time)

\* One observation of the counter: the first one seeds the previous
\* observation and yields 0, a later one yields the rate since the previous
Observe(curr_value, curr_time) ==
    /\ rate' = IF ~rate.called
               THEN [called |-> TRUE, first |-> TRUE,
                     before_value |-> curr_value, before_time |-> curr_time,
                     prev_value |-> curr_value, prev_time |-> curr_time,
                     value |-> 0]
               ELSE [called |-> TRUE, first |-> FALSE,
                     before_value |-> rate.prev_value, before_time |-> rate.prev_time,
                     prev_value |-> curr_value, prev_time |-> curr_time,
                     value |-> RateCounter(rate.prev_value, rate.prev_time,
                                           curr_value, curr_time)]
    /\ UNCHANGED <<engine_vars, scroll_vars, layout>>

\* The clock is monotonic: a reading is never before the previous one
Sampling ==
    \E curr_value \in 0..MaxCounter, curr_time \in 0..MaxClock :
        /\ rate.called => curr_time >= rate.prev_time
        /\ Observe(curr_value, curr_time)

SpecRate == Init /\ [][Sampling]_vars


(***************************************************************************)
(* Properties of update_data.                                              *)
(***************************************************************************)
\* A step that is one update_data call
IsTick == ticks' = ticks + 1

\* The entry a successful read of the last call appended to a timed vector
NewEntry == Sample(ticks, last.current_instant)

\* The value a successful read of the last call returned for snapshot c
SnapshotRead(c) ==
    IF c = "list_of_processes" THEN ProcessRows(last.table, ticks)
    ELSE IF c = "list_of_disks" THEN get_disk_usage_list({}, ticks).value
    ELSE get_temperature_data({}, ticks).value

\* The last call was the first one in which every read succeeded
FirstFullTick == ticks >= 1 /\ last.failed = {} /\ ~last.full_before

\* A timed vector of the five, as a set of entries
EntriesOf(c) == {data[c][i] : i \in 1..Len(data[c])}

\* C1 (as stated): after the first call in which every read succeeds, every
\* timed vector holds exactly one entry, the one that call produced.
C1_Original ==
    FirstFullTick => \A c \in TimeSeries : data[c] = <<NewEntry>>

\* C1 (amended): after the first call since construction every timed vector is
\* empty, whatever its reads returned: neither an earlier entry nor the entry
\* that call produced survives.
C1_FirstTickLeavesNothing ==
    ticks = 1 => \A c \in TimeSeries : data[c] = <<>>

C1_Witness == ticks = 1 /\ last.failed = {} /\ last.reset

\* C2 (as stated): in every call but the first, a failed read leaves its timed
\* vector unchanged and a successful read appends exactly one entry to it.
C2_Original ==
    [][(IsTick /\ ~first_run) =>
        \A c \in TimeSeries :
            data'[c] = IF c \in last'.failed
                       THEN data[c]
                       ELSE Append(data[c], Sample(ticks', last'.current_instant))]_vars

\* C2 (amended): in every call but the first, a failed read leaves its timed
\* vector unchanged and a successful read appends exactly one entry to it,
\* whatever the other reads returned, except that a call which filters the
\* stale entries also drops from the vector the entries older than the window.
C2_PerCategoryIsolation ==
    [][(IsTick /\ ~first_run) =>
        \A c \in TimeSeries :
            LET merged == IF c \in last'.failed
                          THEN data[c]
                          ELSE Append(data[c], Sample(ticks', last'.current_instant))
            IN  data'[c] = IF last'.swept
                           THEN SelectSeq(merged, LAMBDA e :
                                    (last'.clean_instant - e.instant) \div TicksPerSec
                                        <= StaleMaxSeconds)
                           ELSE merged]_vars

C2_Witness ==
    /\ ticks >= 2 /\ ~last.reset /\ ~last.swept
    /\ last.failed = {"memory"}
    /\ Len(data.network) >= 2
    /\ data.network[Len(data.network)] = NewEntry
    /\ Len(data.memory) = 1 /\ data.memory[1] # NewEntry

\* C3: if the read of a snapshot category fails in call N after having
\* succeeded in call N-1, the stored snapshot after call N equals the one stored
\* after call N-1, whatever the other reads of call N returned.
C3_SnapshotRetainedOnFailure ==
    [][(IsTick /\ ticks >= 1) =>
        \A c \in Snapshots :
            (c \notin last.failed /\ c \in last'.failed) => data'[c] = data[c]]_vars

C3_Witness ==
    /\ ticks >= 3
    /\ "list_of_disks" \in last.failed
    /\ "list_of_temperature_sensor" \notin last.failed
    /\ Len(data.list_of_disks) = 2
    /\ data.list_of_disks[1].used_space = ticks - 1

\* C4 (as stated): after every call, the first included, a snapshot category
\* holds the value this call read, or the value it held before if the read failed.
C4_Original ==
    [][IsTick =>
        \A c \in Snapshots :
            data'[c] = IF c \in last'.failed THEN data[c] ELSE SnapshotRead(c)']_vars

\* C4 (amended): after every call but the first, a snapshot category holds the
\* whole value this call read, or the value it held before if the read failed;
\* after the first call every snapshot is empty.
C4_SnapshotReplacedOnSuccess ==
    [][IsTick =>
        \A c \in Snapshots :
            data'[c] = IF first_run THEN <<>>
                       ELSE IF c \in last'.failed THEN data[c]
                       ELSE SnapshotRead(c)']_vars

C4_Witness ==
    /\ ticks >= 3
    /\ last.failed = {"list_of_temperature_sensor"}
    /\ data.list_of_disks = SnapshotRead("list_of_disks")
    /\ data.list_of_processes = SnapshotRead("list_of_processes")
    /\ data.list_of_temperature_sensor # <<>>
    /\ data.list_of_temperature_sensor # SnapshotRead("list_of_temperature_sensor")

\* C5 (as stated): a call in which a read fails does not reset the dataset and
\* leaves first_run set.
C5_Original ==
    (ticks >= 1 /\ last.failed # {} /\ ~last.full_before) => (first_run /\ ~last.reset)

\* C5 (amended): the reset is made by the first call since construction whether
\* or not its reads succeed, and that call clears first_run; no later call
\* resets the dataset, the first fully successful one included.
C5_ResetByFirstCall ==
    /\ ticks >= 1 => ~first_run
    /\ ticks = 1 => data = DataDefault
    /\ ticks >= 2 =>
        \A c \in TimeSeries \ last.failed :
            Len(data[c]) >= 1 /\ data[c][Len(data[c])] = NewEntry

C5_Witness ==
    /\ ticks = 1 /\ last.failed = {"network"}
    /\ last.reset /\ ~first_run /\ data = DataDefault

\* C6 (as stated): right after a filtering at instant `now`, no entry of a timed
\* vector has now - timestamp > stale_max_seconds, the age taken at the full
\* resolution of the clock.
C6_Original ==
    last.swept =>
        \A c \in TimeSeries : \A e \in EntriesOf(c) :
            last.clean_instant - e.instant <= StaleMaxSeconds * TicksPerSec

\* C6 (amended): right after a filtering at instant `now`, no entry of a timed
\* vector has an age now - timestamp of more than stale_max_seconds whole
\* seconds (the age is truncated to seconds, so it is below stale_max_seconds + 1
\* seconds); hence in every state every entry's timestamp is within
\* stale_max_seconds whole seconds of last_clean.
C6_RetentionBound ==
    /\ last.swept =>
        \A c \in TimeSeries : \A e \in EntriesOf(c) :
            last.clean_instant - e.instant < (StaleMaxSeconds + 1) * TicksPerSec
    /\ \A c \in TimeSeries : \A e \in EntriesOf(c) :
            /\ last_clean - e.instant < (StaleMaxSeconds + 1) * TicksPerSec
            /\ e.instant - last_clean < (StaleMaxSeconds + 1) * TicksPerSec

C6_Witness ==
    /\ last.swept
    /\ Len(data.list_of_cpu_packages) = 2
    /\ \E e \in EntriesOf("list_of_cpu_packages") :
            last.clean_instant - e.instant > StaleMaxSeconds * TicksPerSec

C8_EvictionGating ==
    [][IsTick =>
        LET gap == last'.clean_instant - last_clean
            merged == ResetOnFirstRun(first_run,
                          Merge(data, last'.failed, last'.table, ticks',
                                last'.current_instant))
            stats == refresh_pid_stats(prev_pid_stats, last'.failed, last'.table,
                                       ticks', last'.current_instant)
        IN  /\ last'.swept => gap > StaleMaxSeconds * TicksPerSec
            /\ gap \div TicksPerSec <= StaleMaxSeconds =>
                /\ ~last'.swept
                /\ data' = merged
                /\ prev_pid_stats' = stats
                /\ last_clean' = last_clean]_vars

C8_Witness ==
    /\ ticks >= 2 /\ ~last.swept
    /\ last.clean_instant - last_clean = StaleMaxSeconds * TicksPerSec
    /\ Len(data.list_of_cpu_packages) = 1
    /\ 1 \in DOMAIN prev_pid_stats

\* C9: whenever the filtering runs in a call, last_clean is the instant of that
\* filtering afterwards, whether or not anything was removed; so two filterings
\* that follow each other are more than stale_max_seconds apart.
C9_LastCleanUpdated ==
    [][(IsTick /\ last'.swept) =>
        /\ last_clean' = last'.clean_instant
        /\ last_clean' - last_clean > StaleMaxSeconds * TicksPerSec]_vars

C9_Witness ==
    /\ ticks >= 2 /\ last.swept
    /\ last.evicted = 0 /\ last.evicted_pids = {}
    /\ last_clean = last.clean_instant
    /\ Entries(data) > 0

\* C22: once first_run is FALSE it stays FALSE, no later call resets the
\* dataset, and in a call made with first_run FALSE an entry leaves a timed
\* vector only if the filtering ran in that call and the entry was older
\* than stale_max_seconds whole seconds at the filtering instant.
C22_ResetOnlyOnce ==
    [][ /\ ~first_run => ~first_run'
        /\ (IsTick /\ ~first_run) =>
              /\ ~last'.reset
              /\ \A c \in TimeSeries : \A i \in 1..Len(data[c]) :
                    (\A j \in 1..Len(data'[c]) : data'[c][j] # data[c][i]) =>
                        /\ last'.swept
                        /\ as_secs(last'.clean_instant - data[c][i].instant)
                              > StaleMaxSeconds ]_vars

C22_Witness ==
    /\ ticks = 3 /\ ~first_run /\ ~last.reset
    /\ last.swept /\ last.evicted > 0
    /\ Len(data.list_of_cpu_packages) = 1

\* C26: the reset of the first call discards the dataset and nothing else:
\* after the first call the dataset's process list is empty, while
\* prev_pid_stats holds exactly the observations that call's process read
\* seeded (none if the read failed) and last_clean is still the instant of
\* construction unless the filtering of that call ran.
C26_ResetKeepsBaselines ==
    last.reset =>
        /\ data.list_of_processes = << >>
        /\ DOMAIN prev_pid_stats =
              (IF "list_of_processes" \in last.failed THEN {} ELSE last.table)
        /\ \A p \in DOMAIN prev_pid_stats :
              prev_pid_stats[p] = Sample(ticks, last.current_instant)
        /\ ~last.swept => last_clean = 0

C26_Witness ==
    /\ last.reset /\ ~last.swept
    /\ last.table = {1, 2} /\ "list_of_processes" \notin last.failed
    /\ DOMAIN prev_pid_stats = {1, 2}
    /\ data = DataDefault
    /\ last_clean = 0

\* The timed vector v is ordered by non-decreasing Instant
Sorted(v) == \A i \in 1..(Len(v) - 1) : v[i].instant <= v[i + 1].instant

\* C27: every timed vector is ordered by non-decreasing Instant; a call leaves
\* of it a suffix (it removes a possibly empty prefix of the oldest entries,
\* and a non-empty one only when the filtering ran) followed by at most one
\* new entry, the one carrying the call's current_instant.
C27_OrderedAppendOnly ==
    [][IsTick =>
        \A c \in TimeSeries :
            /\ Sorted(data'[c])
            /\ \E k \in 0..Len(data[c]) :
                  LET suffix == SubSeq(data[c], k + 1, Len(data[c]))
                  IN  /\ k > 0 => last'.swept
                      /\ \/ data'[c] = suffix
                         \/ data'[c] = Append(suffix,
                                              Sample(ticks', last'.current_instant))]_vars

C27_Witness ==
    /\ ticks = 3 /\ last.swept /\ last.evicted = 5
    /\ \A c \in TimeSeries : data[c] = <<Sample(3, last.current_instant)>>

\* The step is a call of update_data dropped at one of its awaits
Dropped == last'.abandoned # last.abandoned

\* C21: a call dropped at an await leaves every timed vector either as it was
\* or with the call's one entry appended, every snapshot either as it was or
\* replaced by the call's read, and first_run and last_clean as they were;
\* and every call that runs to its end, before or after the dropped one,
\* still discards the dataset if first_run is set and clears it, leaves no
\* entry older than stale_max_seconds whole seconds when it filters, and
\* keeps a snapshot whose read failed.
C21_CancellationSafe ==
    [][ /\ Dropped =>
              /\ \A c \in TimeSeries :
                    \/ data'[c] = data[c]
                    \/ data'[c] = Append(data[c], Sample(ticks + 1, now'))
              /\ \/ data'.list_of_processes = data.list_of_processes
                 \/ \E t \in ProcessTables :
                        data'.list_of_processes = ProcessRows(t, ticks + 1)
              /\ \/ data'.list_of_disks = data.list_of_disks
                 \/ data'.list_of_disks = get_disk_usage_list({}, ticks + 1).value
              /\ \/ data'.list_of_temperature_sensor = data.list_of_temperature_sensor
                 \/ data'.list_of_temperature_sensor
                        = get_temperature_data({}, ticks + 1).value
              /\ first_run' = first_run
              /\ last_clean' = last_clean
        /\ IsTick =>
              /\ ~first_run'
              /\ first_run => \A c \in Categories : data'[c] = << >>
              /\ last'.swept =>
                    \A c \in TimeSeries : \A i \in 1..Len(data'[c]) :
                        as_secs(last'.clean_instant - data'[c][i].instant)
                            <= StaleMaxSeconds
              /\ ~first_run =>
                    \A c \in Snapshots : c \in last'.failed => data'[c] = data[c] ]_vars

C21_Witness ==
    /\ last.abandoned = 4
    /\ ticks = 2 /\ ~last.swept
    /\ Len(data.network) = 2
    /\ Len(data.list_of_io) = 1

\* A tracked observation is kept in a timed vector or in prev_pid_stats
Tracked == TrackedIn(data, prev_pid_stats)

\* C28: while update_data keeps being called and the clock advances between
\* the calls, whatever observation a call has put in a timed vector or in
\* prev_pid_stats is eventually gone from it (evicted, or for a pid
\* overwritten by a fresh observation): none is kept for ever.
C28_EventualEviction == Tracked ~> ~Tracked

C28_Witness ==
    /\ last.swept /\ ~last.reset
    /\ last.tracked_gone
    /\ 2 \in last.evicted_pids
    /\ ~Tracked

(***************************************************************************)
(* Properties of get_start_position.                                       *)
(***************************************************************************)
\* Every call so far was made under DOWN, with num_rows > 0 and a selection
\* that never went back, starting from previous_offset = 0
DownRun == scroll.called /\ scroll.down_run /\ scroll.rows_positive

\* C10 (as stated): under such calls the offset returned satisfies
\* offset <= selected < offset + num_rows.
C10_Original ==
    DownRun =>
        /\ start_position <= currently_selected_position
        /\ currently_selected_position < start_position + num_rows

\* C10 (amended): under such calls the offset returned satisfies
\* offset <= selected <= offset + num_rows.
C10_ScrollWindow ==
    DownRun =>
        /\ start_position <= currently_selected_position
        /\ currently_selected_position <= start_position + num_rows

C10_Witness ==
    /\ DownRun
    /\ start_position > 0
    /\ currently_selected_position = start_position + num_rows


\* C11: under calls made with DOWN, one fixed num_rows >= 0 and a selection
\* that never goes back, starting from previous_offset = 0, the offset a call
\* returns is at least the offset the call before it returned.
C11_ScrollMonotone ==
    [][(scroll.called /\ scroll'.down_run /\ scroll'.rows_fixed /\ num_rows' >= 0) =>
        start_position' >= start_position]_vars

C11_Witness ==
    /\ scroll.called /\ scroll.down_run /\ scroll.rows_fixed /\ num_rows >= 0
    /\ scroll.before_start > 0
    /\ start_position > scroll.before_start

\* C12: the DOWN rule, for every call: if selected < previous_offset + num_rows
\* the call returns previous_offset and leaves it stored; else if
\* selected >= num_rows it returns selected - num_rows and stores it
\* (num_rows = 5, previous_offset = 0, selected = 7 returns 2 and stores 2);
\* else it returns 0.
C12_DownRule ==
    [][scroll_direction' = "DOWN" =>
        IF currently_selected_position' < previously_scrolled_position + num_rows'
        THEN /\ start_position' = previously_scrolled_position
             /\ previously_scrolled_position' = previously_scrolled_position
        ELSE IF currently_selected_position' >= num_rows'
        THEN /\ start_position' = currently_selected_position' - num_rows'
             /\ previously_scrolled_position' = currently_selected_position' - num_rows'
        ELSE start_position' = 0]_vars

C12_Witness ==
    /\ scroll.called /\ scroll_direction = "DOWN"
    /\ num_rows = 5 /\ scroll.before_prev = 0 /\ currently_selected_position = 7
    /\ start_position = 2 /\ previously_scrolled_position = 2

\* C13: the UP rule, for every call: if selected <= previous_offset the call
\* returns selected and stores it; otherwise it returns previous_offset and
\* leaves it stored; either way the offset returned is <= selected.
C13_UpRule ==
    [][scroll_direction' = "UP" =>
        /\ IF currently_selected_position' <= previously_scrolled_position
           THEN /\ start_position' = currently_selected_position'
                /\ previously_scrolled_position' = currently_selected_position'
           ELSE /\ start_position' = previously_scrolled_position
                /\ previously_scrolled_position' = previously_scrolled_position
        /\ start_position' <= currently_selected_position']_vars

C13_Witness ==
    /\ scroll.called /\ scroll_direction = "UP"
    /\ scroll.before_prev = 2 /\ currently_selected_position = 1
    /\ start_position = 1 /\ previously_scrolled_position = 1

\* C23: from offset 0 and selection 0, with num_rows fixed and >= 0, while
\* every call moves the selection by +1 under DOWN, by -1 under UP, or leaves
\* it where it was, the stored offset satisfies
\* previous_offset <= selected <= previous_offset + num_rows after each call.
C23_UnitMoveWindow ==
    (scroll.called /\ scroll.unit_moves /\ scroll.rows_fixed /\ num_rows >= 0) =>
        /\ previously_scrolled_position <= currently_selected_position
        /\ currently_selected_position <= previously_scrolled_position + num_rows

C23_Witness ==
    /\ scroll.called /\ scroll.unit_moves /\ scroll.rows_fixed
    /\ num_rows = 1
    /\ scroll_direction = "UP"
    /\ scroll.before_prev = 2
    /\ currently_selected_position = 1
    /\ previously_scrolled_position = 1

\* C24: whatever the directions, selections (>= 0) and heights of the calls
\* made from offset 0, the stored offset is never negative, the returned
\* start index is never negative, and a call with num_rows >= 0 returns the
\* offset it leaves stored (the branch returning 0 without storing is not
\* taken).
C24_StartNeverNegative ==
    scroll.called =>
        /\ previously_scrolled_position >= 0
        /\ start_position >= 0
        /\ num_rows >= 0 => start_position = previously_scrolled_position

C24_Witness ==
    /\ scroll.called /\ ~scroll.rows_fixed
    /\ scroll_direction = "DOWN"
    /\ currently_selected_position < num_rows
    /\ previously_scrolled_position > 0
    /\ start_position = previously_scrolled_position

(***************************************************************************)
(* Properties of get_variable_intrinsic_widths.                            *)
(***************************************************************************)
\* The last call ran its main pass (it did not panic on the gap subtraction)
Passed == layout.called /\ layout.result.passed

\* The last call returned
Returned == layout.called /\ layout.result.returned

\* N, the number of columns of the last call
NumWidths == Len(layout.desired_widths_ratio)

RECURSIVE SumTo(_, _)
\* w[1] + ... + w[n]
SumTo(w, n) == IF n = 0 THEN 0 ELSE w[n] + SumTo(w, n - 1)

\* The last call was made with these arguments
CalledWith(total_width, desired_widths_ratio, width_thresholds) ==
    /\ layout.called
    /\ layout.total_width = total_width
    /\ layout.desired_widths_ratio = desired_widths_ratio
    /\ layout.width_thresholds = width_thresholds

\* C14 (as stated): whenever get_variable_intrinsic_widths returns, all N
\* entries of the returned vector sum to at most total_width - (N-1).
\* The code adds the leftover share to every entry, dropped columns too:
\* width 8, ratios [0.5, 0.5], thresholds [5, 5] returns [7, 2].
C14_Original ==
    Returned =>
        SumTo(layout.result.resulting_widths, NumWidths)
            <= layout.total_width - (NumWidths - 1)

\* C15 (as stated): whenever get_variable_intrinsic_widths returns, every
\* non-zero entry of the returned vector is at least its column's threshold.
\* A dropped column that receives a leftover share is non-zero and below it.
C15_Original ==
    Returned =>
        \A i \in 1..NumWidths :
            layout.result.resulting_widths[i] # 0 =>
                layout.result.resulting_widths[i] >= layout.width_thresholds[i]

\* C16: after the main pass, last_index (the rendered_count the call returns)
\* is the number of columns given a non-zero width before the first column
\* given 0: columns 1..last_index are non-zero, column last_index + 1, if
\* there is one, is 0 and so is every later one, and 0 <= last_index <= N.
C16_RenderedCount ==
    Passed =>
        /\ layout.result.last_index \in 0..NumWidths
        /\ \A i \in 1..NumWidths :
              (i <= layout.result.last_index) <=> (layout.result.allocated[i] # 0)

C16_Witness ==
    /\ Returned
    /\ NumWidths = 3
    /\ layout.result.last_index = 2
    /\ layout.result.allocated[3] = 0
    /\ layout.result.allocated[2] # 0

\* The share of the leftover that column i is said to gain
Share(i) ==
    IF i <= layout.result.last_index
    THEN (layout.result.remaining_width \div layout.result.last_index)
         + (IF i <= layout.result.remaining_width % layout.result.last_index
            THEN 1 ELSE 0)
    ELSE 0

\* C17 (as stated): whenever width is left over after the main pass, each of
\* the rendered_count allocated columns gains floor(remaining / rendered_count),
\* the first (remaining mod rendered_count) of them one more, and the other
\* columns gain nothing, also when all N columns were allocated.
C17_Original ==
    (Returned /\ layout.result.remaining_width > 0) =>
        \A i \in 1..NumWidths :
            layout.result.resulting_widths[i] = layout.result.allocated[i] + Share(i)

\* The space the rule has left for column i: total_width - (N-1) less what
\* the columns before it were given
RemainingBefore(i) ==
    layout.total_width - (NumWidths - 1) - SumTo(layout.result.allocated, i - 1)

\* The width the rule gives column i
RuleWidth(i) ==
    LET desired == (layout.desired_widths_ratio[i] * layout.total_width) \div 4
        threshold == layout.width_thresholds[i]
        remaining == RemainingBefore(i)
    IN  IF \E j \in 1..(i - 1) : layout.result.allocated[j] = 0 THEN 0
        ELSE IF desired < threshold /\ threshold <= remaining THEN threshold
        ELSE IF threshold <= desired /\ desired <= remaining THEN desired
        ELSE IF threshold <= remaining /\ remaining < desired THEN remaining
        ELSE 0

\* C18 (as stated): with remaining starting at total_width - (N-1) and
\* desired = floor(ratio * total_width), each column in order gets threshold
\* when desired < threshold <= remaining, desired when threshold <= desired
\* <= remaining, remaining when threshold <= remaining < desired, and else 0,
\* which ends the pass; (20, [0.5, 0.5], [5, 5]) gives [10, 9] and 2.
C18_Original ==
    /\ Passed => \A i \in 1..NumWidths : layout.result.allocated[i] = RuleWidth(i)
    /\ CalledWith(20, <<2, 2>>, <<5, 5>>) =>
          /\ Returned
          /\ layout.result.resulting_widths = <<10, 9>>
          /\ layout.result.last_index = 2

\* C19 (as stated): every call with N >= 1 returns, whatever the terminal
\* width: the u16 subtraction total_width - (N-1) does not underflow and the
\* redistribution does not divide by a rendered_count of 0.
C19_Original == layout.called => layout.result.returned

\* C25 (as stated): whenever get_variable_intrinsic_widths returns, the prefix
\* the callers draw, the first rendered_count entries, has every element at
\* least its column's threshold and sums to at most total_width - (N-1), both
\* as the main pass leaves it and as it is returned after the redistribution.
C25_Original ==
    Returned =>
        /\ \A i \in 1..layout.result.last_index :
              /\ layout.result.allocated[i] >= layout.width_thresholds[i]
              /\ layout.result.resulting_widths[i] >= layout.width_thresholds[i]
        /\ SumTo(layout.result.allocated, layout.result.last_index)
              <= layout.total_width - (NumWidths - 1)
        /\ SumTo(layout.result.resulting_widths, layout.result.last_index)
              <= layout.total_width - (NumWidths - 1)

(***************************************************************************)
(* Properties of RateCounter.                                              *)
(***************************************************************************)
\* The last observation had a previous one to compare with
Compared == rate.called /\ ~rate.first

====
